---- MODULE Spec2Model ----
(***************************************************************************)
(* Model of app.py: a Streamlit script that loads PDF regulation texts,    *)
(* retrieves the excerpt about a country, asks an LLM backend to analyse   *)
(* it and computes the final legal driving date.                           *)
(*                                                                         *)
(* One behaviour is a sequence of script reruns inside one server process. *)
(* Strings are sequences of chunks (a word, a punctuation mark, a blank);  *)
(* calendar dates are day ordinals.                                        *)
(***************************************************************************)
EXTENDS Integers, Sequences, FiniteSets, TLC

\* ---- bounds -------------------------------------------------------------
MaxDay == 3          \* input dates and today range over 1..MaxDay
MaxLimit == 2        \* limit_days returned by a backend ranges over -1..MaxLimit

\* ---- program constants --------------------------------------------------
DefaultLimitDays == 365      \* res.get("limit_days", 365)
ContextBefore == 300         \* start_idx - 300
context_window == 1500       \* smart_retrieve_context(..., context_window=1500)
DateMinOrd == 1              \* date.min.toordinal(): date + timedelta below it raises OverflowError
DateMaxOrd == MaxDay + 1     \* stand-in for date.max.toordinal(): above it raises OverflowError

Days == 1..MaxDay
Backends == {"OpenAI", "Gemini", "Claude"}
required == {"motorcycle_eligible", "translation_required", "limit_days", "reason"}

Max2(a, b) == IF a >= b THEN a ELSE b
Min2(a, b) == IF a <= b THEN a ELSE b
Min3(a, b, c) == Min2(a, Min2(b, c))
Abs(n) == IF n < 0 THEN 0 - n ELSE n

\* ---- strings as chunk sequences -----------------------------------------
\* "Meiguo", "Riben", "Ribenguo" stand for the CJK names of the alias table
Blank == " "
WordChunks == {"USA", "Meiguo", "Japan", "Riben", "Germany", "Mars"}

\* re.sub(r'[^\w\s\u4e00-\u9fff-]', '', text): drop every chunk that is neither
\* a word, a blank nor CJK
RECURSIVE RemoveDisallowed(_)
RemoveDisallowed(s) ==
    IF s = <<>> THEN <<>>
    ELSE IF Head(s) \in WordChunks \cup {Blank}
         THEN <<Head(s)>> \o RemoveDisallowed(Tail(s))
         ELSE RemoveDisallowed(Tail(s))

RECURSIVE LStrip(_)
LStrip(s) == IF s # <<>> /\ Head(s) = Blank THEN LStrip(Tail(s)) ELSE s

RECURSIVE RStrip(_)
RStrip(s) ==
    IF s # <<>> /\ s[Len(s)] = Blank THEN RStrip(SubSeq(s, 1, Len(s) - 1)) ELSE s

Strip(s) == RStrip(LStrip(s))

sanitize_input(text) ==
    IF text = <<>> THEN <<>> ELSE Strip(RemoveDisallowed(text))

\* what the user may type in the country box
RawCountries ==
    { <<>>, <<"!">>, <<Blank>>, <<"USA">>, <<"USA", "!">>, <<Blank, "Riben">>,
      <<"Japan">>, <<"Mars">>, <<"Germany", Blank>> }

\* ---- validate_dates -----------------------------------------------------
ErrEntry == "entry_after_today"
ErrIdp == "idp_before_entry"
ErrLegal == "legal_before_entry"

\* variant: an if/elif chain that reports only the first violated rule
validate_dates_FirstOnly(entry, idp, legal, now) ==
    IF entry > now THEN <<ErrEntry>>
    ELSE IF idp < entry THEN <<ErrIdp>>
    ELSE IF legal < entry THEN <<ErrLegal>>
    ELSE <<>>

\* variant: the visa/residency rule is not checked
validate_dates_NoVisaRule(entry, idp, legal, now) ==
    (IF entry > now THEN <<ErrEntry>> ELSE <<>>)
    \o (IF idp < entry THEN <<ErrIdp>> ELSE <<>>)

validate_dates(entry, idp, legal, now) ==
    (IF entry > now THEN <<ErrEntry>> ELSE <<>>)
    \o (IF idp < entry THEN <<ErrIdp>> ELSE <<>>)
    \o (IF legal < entry THEN <<ErrLegal>> ELSE <<>>)

\* ---- smart_retrieve_context ---------------------------------------------
aliases ==
    [ k \in {"Meiguo", "Riben"} |->
        IF k = "Meiguo" THEN << <<"USA">>, <<"United", Blank, "States">> >>
        ELSE << <<"Japan">>, <<"Ribenguo">> >> ]

SeqRange(s) == { s[i] : i \in 1..Len(s) }

\* [key] + values of the first alias group that contains the target
AliasGroup(k) == {<<k>>} \cup SeqRange(aliases[k])

country_variants(target) ==
    {target} \cup UNION { AliasGroup(k) : k \in { j \in DOMAIN aliases : target \in AliasGroup(j) } }

\* 0-based offsets at which variant occurs in full_text (str.find loop)
Occurrences(full_text, variant) ==
    { i \in 0..(Len(full_text) - Len(variant)) :
        SubSeq(full_text, i + 1, i + Len(variant)) = variant }

SetMin(S) == CHOOSE m \in S : \A x \in S : m <= x

\* candidates for positions[0]: the set of variants is iterated in an
\* unspecified order, each variant contributing its offsets in ascending order
FirstPositions(full_text, target) ==
    { <<SetMin(Occurrences(full_text, v)), v>> :
        v \in { w \in country_variants(target) : Occurrences(full_text, w) # {} } }

ContextAt(full_text, start_idx) ==
    SubSeq(full_text,
           Max2(0, start_idx - ContextBefore) + 1,
           Min2(Len(full_text), start_idx + context_window))

\* ---- load_and_preprocess_pdfs -------------------------------------------
FileNames == {"CA.pdf", "NY.pdf", "notes.txt"}
PdfNames == {"CA.pdf", "NY.pdf"}          \* f.endswith('.pdf')
Statuses == {"absent", "text", "notext", "broken"}

\* file.replace(".pdf", "")
RegionOf(file) == IF file = "CA.pdf" THEN "CA" ELSE IF file = "NY.pdf" THEN "NY" ELSE file

\* the text pdfplumber extracts from a readable file
TextOf(file) ==
    IF file = "CA.pdf" THEN <<"Germany", Blank, "Japan">> ELSE <<"USA">>

\* what may be on disk when the data folder is read
DiskStates ==
    { d \in [exists : BOOLEAN, files : [FileNames -> Statuses]] :
        /\ d.files["notes.txt"] \in {"absent", "text"}
        /\ (~d.exists => \A f \in FileNames : d.files[f] = "absent") }

\* os.listdir order is unspecified: every ordering of the files present
Listings(d) ==
    LET present == { f \in FileNames : d.files[f] # "absent" }
    IN  { o \in [1..Cardinality(present) -> present] :
            \A i, j \in 1..Cardinality(present) : o[i] = o[j] => i = j }

NoKB == <<>>

\* the for-loop over files: acc = [kb, errors]
RECURSIVE LoadLoop(_, _, _)
LoadLoop(d, files, acc) ==
    IF files = <<>> THEN acc
    ELSE LET file == Head(files)
             st == d.files[file]
             next == IF st = "text"
                     THEN [acc EXCEPT !.kb = (RegionOf(file) :> TextOf(file)) @@ acc.kb]
                     ELSE [acc EXCEPT !.errors = Append(acc.errors, <<file, st>>)]
         IN  LoadLoop(d, Tail(files), next)

\* error_msg is modelled as the list of its lines; <<>> is None.
\* os.listdir is taken to succeed on an existing folder (it is outside the try).
load_and_preprocess_pdfs(d, listing) ==
    LET files == SelectSeq(listing, LAMBDA f : f \in PdfNames)
        r == LoadLoop(d, files, [kb |-> NoKB, errors |-> <<>>])
    IN  IF ~d.exists
        THEN [isNone |-> TRUE, kb |-> NoKB, error_msg |-> << <<"data", "no_dir">> >>]
        ELSE IF files = <<>>
        THEN [isNone |-> TRUE, kb |-> NoKB, error_msg |-> << <<"data", "no_pdf">> >>]
        ELSE [isNone |-> FALSE, kb |-> r.kb, error_msg |-> r.errors]

\* variant: only None is treated as a failed load, an empty dict is not
KbFalsy_NoneOnly(v) == v.isNone

\* Python truthiness of kb: None and {} are falsy
KbFalsy(v) == v.isNone \/ DOMAIN v.kb = {}

\* ---- LLM responses and the analyze_with_* functions ---------------------
Num(k) == [num |-> TRUE, n |-> k]
JsonNull == [num |-> FALSE, n |-> 0]
LimitValues == { Num(k) : k \in (0 - 1)..MaxLimit } \cup {JsonNull}

KeySets ==
    {required, required \cup {"error"}, {}} \cup { required \ {f} : f \in required }

\* a response: the API call fails, or returns a text that is empty or is a
\* JSON object / non-JSON garbage, plain or wrapped in a code fence or prose
Responses ==
    { r \in [api_ok : BOOLEAN, body : {"empty", "garbage", "object"},
             wrap : {"plain", "fenced", "prose"}, keys : KeySets,
             motorcycle_eligible : BOOLEAN, translation_required : BOOLEAN,
             limit_days : LimitValues] :
        /\ (~r.api_ok => r.body = "empty")
        /\ (r.body = "empty" => r.wrap = "plain")
        /\ (r.body # "object" => r.keys = {})
        /\ ("motorcycle_eligible" \notin r.keys => ~r.motorcycle_eligible)
        \* translation_required only selects the label of one metric: one value
        /\ r.translation_required = ("translation_required" \in r.keys)
        /\ ("limit_days" \notin r.keys => r.limit_days = JsonNull) }

ErrorResult(e) ==
    [keys |-> {"error"}, error |-> e, motorcycle_eligible |-> FALSE,
     translation_required |-> FALSE, limit_days |-> JsonNull]

ParsedResult(r) ==
    [keys |-> r.keys, error |-> IF "error" \in r.keys THEN "llm" ELSE "",
     motorcycle_eligible |-> r.motorcycle_eligible,
     translation_required |-> r.translation_required, limit_days |-> r.limit_days]

\* json.loads succeeds on exactly a bare JSON object
JsonLoadsOk(wrap, body) == wrap = "plain" /\ body = "object"

analyze_with_openai(r) ==
    IF ~r.api_ok THEN ErrorResult("api")
    ELSE IF ~JsonLoadsOk(r.wrap, r.body) THEN ErrorResult("api")
    ELSE IF ~(required \subseteq r.keys) THEN ErrorResult("missing")
    ELSE ParsedResult(r)

\* variant: the required-field check is skipped
analyze_with_gemini_NoFieldCheck(r) ==
    LET unfenced == IF r.wrap = "fenced" THEN "plain" ELSE r.wrap
        matched == r.body = "object" /\ "motorcycle_eligible" \in r.keys
        wrap == IF matched THEN "plain" ELSE unfenced
    IN  IF ~r.api_ok THEN ErrorResult("api")
        ELSE IF r.body = "empty" THEN ErrorResult("empty")
        ELSE IF ~JsonLoadsOk(wrap, r.body) THEN ErrorResult("json")
        ELSE ParsedResult(r)

analyze_with_gemini(r) ==
    LET unfenced == IF r.wrap = "fenced" THEN "plain" ELSE r.wrap
        \* re.search(r'\{[^}]*"motorcycle_eligible"[^}]*\}') cuts the object out
        matched == r.body = "object" /\ "motorcycle_eligible" \in r.keys
        wrap == IF matched THEN "plain" ELSE unfenced
    IN  IF ~r.api_ok THEN ErrorResult("api")
        ELSE IF r.body = "empty" THEN ErrorResult("empty")
        ELSE IF ~JsonLoadsOk(wrap, r.body) THEN ErrorResult("json")
        ELSE IF ~(required \subseteq r.keys) THEN ErrorResult("missing")
        ELSE ParsedResult(r)

analyze_with_claude(r) ==
    IF ~r.api_ok THEN ErrorResult("api")
    ELSE IF ~JsonLoadsOk(r.wrap, r.body) THEN ErrorResult("api")
    ELSE IF ~(required \subseteq r.keys) THEN ErrorResult("missing")
    ELSE ParsedResult(r)

\* res.get("limit_days", 365)
GetLimitDays(res) ==
    IF "limit_days" \in res.keys THEN res.limit_days ELSE Num(DefaultLimitDays)

\* ---- state --------------------------------------------------------------
VARIABLES
    AI_BACKENDS,     \* which AI packages could be imported (fixed per process)
    cache,           \* st.cache_resource entry of load_and_preprocess_pdfs
    reads,           \* disk reads of the data folder since the cache was last cleared
    disk,            \* the data folder as it was when it was last read
    today,           \* datetime.now().date()
    pc,              \* position of the script run
    ai_backend, api_key,
    kb, load_error,
    region_choice, target_country,
    entry_date, idp_exp, legal_exp,
    date_errors,
    context,
    response,        \* what the backend answered in the current run
    res,
    llmCalls,        \* analyze_with_* invocations in the current run
    gates,           \* the checks the current run has passed, in order
    ui               \* what the current run has rendered

vars == <<AI_BACKENDS, cache, reads, disk, today, pc, ai_backend, api_key, kb, load_error,
          region_choice, target_country, entry_date, idp_exp, legal_exp,
          date_errors, context, response, res, llmCalls, gates, ui>>

inputs == <<ai_backend, api_key, region_choice, target_country,
            entry_date, idp_exp, legal_exp, date_errors>>

NoneResult == [isNone |-> TRUE, kb |-> NoKB, error_msg |-> <<>>]
NotLoaded == [loaded |-> FALSE, value |-> NoneResult]
NoContext == [found |-> FALSE, text |-> <<>>, variant |-> <<>>]
NoDisk == [exists |-> FALSE, files |-> [f \in FileNames |-> "absent"]]
NoResponse == [api_ok |-> FALSE, body |-> "empty", wrap |-> "plain", keys |-> {},
               motorcycle_eligible |-> FALSE, translation_required |-> FALSE,
               limit_days |-> JsonNull]
NoRes == [keys |-> {}, error |-> "", motorcycle_eligible |-> FALSE,
          translation_required |-> FALSE, limit_days |-> JsonNull]

BlankUI ==
    [status |-> "running", errors |-> <<>>, warnings |-> <<>>,
     final_shown |-> FALSE, final_date |-> 0, law_days |-> 0,
     moto |-> "none", now |-> 0, days_kind |-> "none", days_shown |-> 0,
     footer |-> FALSE]

available_backends == { b \in Backends : AI_BACKENDS[b] }

\* st.stop(): the run ends here, nothing below is rendered
Stop(u) == [u EXCEPT !.status = "stopped"]

ResetRun ==
    /\ ai_backend' = "none" /\ api_key' = ""
    /\ kb' = NoneResult /\ load_error' = <<>>
    /\ region_choice' = "none" /\ target_country' = <<>>
    /\ entry_date' = 1 /\ idp_exp' = 1 /\ legal_exp' = 1
    /\ date_errors' = <<>>
    /\ context' = NoContext /\ response' = NoResponse /\ res' = NoRes
    /\ llmCalls' = 0 /\ gates' = <<>> /\ ui' = BlankUI

\* which packages are installed: none, one, or all of them (the script only
\* ever asks whether the list is empty and which member was selected)
Installations == { {}, {"Gemini"}, Backends }

Init ==
    /\ AI_BACKENDS \in { [b \in Backends |-> b \in S] : S \in Installations }
    /\ cache = NotLoaded /\ reads = 0 /\ disk = NoDisk
    /\ today = 1
    /\ pc = "idle"
    /\ ai_backend = "none" /\ api_key = ""
    /\ kb = NoneResult /\ load_error = <<>>
    /\ region_choice = "none" /\ target_country = <<>>
    /\ entry_date = 1 /\ idp_exp = 1 /\ legal_exp = 1
    /\ date_errors = <<>>
    /\ context = NoContext /\ response = NoResponse /\ res = NoRes
    /\ llmCalls = 0 /\ gates = <<>>
    /\ ui = [BlankUI EXCEPT !.status = "done"]

\* ---- the script, top to bottom ------------------------------------------
\* a widget interaction makes Streamlit run the script again
StartRun ==
    /\ pc = "idle"
    /\ pc' = "backends"
    /\ ResetRun
    /\ UNCHANGED <<AI_BACKENDS, cache, reads, disk, today>>

\* lines 286-298
CheckBackends ==
    /\ pc = "backends"
    /\ IF available_backends = {}
       THEN /\ ui' = Stop([ui EXCEPT !.errors = Append(@, <<"no_backend">>)])
            /\ pc' = "idle"
            /\ UNCHANGED gates
       ELSE /\ gates' = Append(gates, "backends")
            /\ pc' = "sidebar"
            /\ UNCHANGED ui
    /\ UNCHANGED <<AI_BACKENDS, cache, reads, disk, today, inputs, kb, load_error,
                   context, response, res, llmCalls>>

\* lines 301-385, reload button not pressed
Sidebar ==
    /\ pc = "sidebar"
    /\ \E b \in available_backends, k \in {"", "key"} :
          /\ ai_backend' = b
          /\ api_key' = k
    /\ pc' = "load"
    /\ UNCHANGED <<AI_BACKENDS, cache, reads, disk, today, kb, load_error, region_choice,
                   target_country, entry_date, idp_exp, legal_exp, date_errors,
                   context, response, res, llmCalls, gates, ui>>

\* lines 385-387: st.cache_resource.clear(); st.rerun()
ReloadPdf ==
    /\ pc = "sidebar"
    /\ cache' = NotLoaded
    /\ reads' = 0
    /\ pc' = "backends"
    /\ ResetRun
    /\ UNCHANGED <<AI_BACKENDS, disk, today>>

\* variant: a failed load is not kept in the cache
CacheHit_SuccessOnly(c) == c.loaded /\ ~KbFalsy(c.value)

\* @st.cache_resource: the stored value is returned without running the function
CacheHit(c) == c.loaded

\* lines 392-393: the cached call
LoadKnowledgeBase ==
    /\ pc = "load"
    /\ IF CacheHit(cache)
       THEN UNCHANGED <<cache, reads, disk>>
       ELSE \E d \in DiskStates : \E listing \in Listings(d) :
               /\ cache' = [loaded |-> TRUE, value |-> load_and_preprocess_pdfs(d, listing)]
               /\ reads' = reads + 1
               /\ disk' = d
    /\ kb' = [isNone |-> cache'.value.isNone, kb |-> cache'.value.kb]
    /\ load_error' = cache'.value.error_msg
    /\ pc' = "kb_gate"
    /\ UNCHANGED <<AI_BACKENDS, today, ai_backend, api_key, region_choice,
                   target_country, entry_date, idp_exp, legal_exp, date_errors,
                   context, response, res, llmCalls, gates, ui>>

\* lines 395-405
KbGate ==
    /\ pc = "kb_gate"
    /\ IF KbFalsy(kb)
       THEN /\ ui' = Stop([ui EXCEPT !.errors =
                        IF load_error # <<>>
                        THEN @ \o << <<"kb_fail">>, <<"load_error">> >>
                        ELSE Append(@, <<"kb_fail">>)])
            /\ pc' = "idle"
            /\ UNCHANGED gates
       ELSE /\ ui' = IF load_error # <<>>
                     THEN [ui EXCEPT !.warnings = Append(@, <<"load_error">>)]
                     ELSE ui
            /\ gates' = Append(gates, "kb")
            /\ pc' = "key_gate"
    /\ UNCHANGED <<AI_BACKENDS, cache, reads, disk, today, inputs, kb, load_error,
                   context, response, res, llmCalls>>

\* lines 407-415
ApiKeyGate ==
    /\ pc = "key_gate"
    /\ IF api_key = ""
       THEN /\ ui' = Stop([ui EXCEPT !.warnings = Append(@, <<"no_api_key">>)])
            /\ pc' = "idle"
            /\ UNCHANGED gates
       ELSE /\ gates' = Append(gates, "apikey")
            /\ pc' = "form"
            /\ UNCHANGED ui
    /\ UNCHANGED <<AI_BACKENDS, cache, reads, disk, today, inputs, kb, load_error,
                   context, response, res, llmCalls>>

\* st.error(f"... {error}") for each element of date_errors
ShowDateErrors(u, errs) ==
    [u EXCEPT !.errors = @ \o [i \in 1..Len(errs) |-> <<"date", errs[i]>>]]

\* lines 417-447: the query widgets and the date validation
Form ==
    /\ pc = "form"
    /\ \E r \in DOMAIN kb.kb, raw \in RawCountries, e \in Days, i \in Days, l \in Days :
          /\ region_choice' = r
          /\ target_country' = sanitize_input(raw)
          /\ entry_date' = e /\ idp_exp' = i /\ legal_exp' = l
          /\ date_errors' = validate_dates(e, i, l, today)
    /\ ui' = ShowDateErrors(ui, date_errors')
    /\ pc' = "query"
    /\ UNCHANGED <<AI_BACKENDS, cache, reads, disk, today, ai_backend, api_key, kb,
                   load_error, context, response, res, llmCalls, gates>>

\* variant: the query runs although the dates are invalid
QueryEnabled_IgnoreDates(country, errs) == country # <<>>

\* line 450: target_country and not date_errors
QueryEnabled(country, errs) == country # <<>> /\ errs = <<>>

\* lines 450-451 and 542-543
QueryGate ==
    /\ pc = "query"
    /\ IF QueryEnabled(target_country, date_errors)
       THEN \E pressed \in BOOLEAN :
               /\ gates' = gates \o <<"country", "dates">>
                             \o (IF pressed THEN <<"button">> ELSE <<>>)
               /\ pc' = IF pressed THEN "retrieve" ELSE "footer"
               /\ UNCHANGED ui
       ELSE IF target_country # <<>> /\ date_errors # <<>>
       THEN /\ ui' = [ui EXCEPT !.warnings = Append(@, <<"fix_dates">>)]
            /\ gates' = Append(gates, "country")
            /\ pc' = "footer"
       ELSE /\ pc' = "footer"
            /\ UNCHANGED <<ui, gates>>
    /\ UNCHANGED <<AI_BACKENDS, cache, reads, disk, today, inputs, kb, load_error,
                   context, response, res, llmCalls>>

\* kb.get(region_choice, "")
FullText == IF region_choice \in DOMAIN kb.kb THEN kb.kb[region_choice] ELSE <<>>

\* lines 454-462
Retrieve ==
    /\ pc = "retrieve"
    /\ IF FirstPositions(FullText, target_country) = {}
       THEN /\ ui' = Stop([ui EXCEPT !.warnings = Append(@, <<"not_found">>)])
            /\ pc' = "idle"
            /\ UNCHANGED <<context, gates>>
       ELSE \E p \in FirstPositions(FullText, target_country) :
               /\ context' = [found |-> TRUE, text |-> ContextAt(FullText, p[1]),
                              variant |-> p[2]]
               /\ gates' = Append(gates, "context")
               /\ pc' = "analyze"
               /\ UNCHANGED ui
    /\ UNCHANGED <<AI_BACKENDS, cache, reads, disk, today, inputs, kb, load_error,
                   response, res, llmCalls>>

\* lines 466-471
Dispatch(backend, r) ==
    IF backend = "OpenAI" THEN analyze_with_openai(r)
    ELSE IF backend = "Gemini" THEN analyze_with_gemini(r)
    ELSE analyze_with_claude(r)

\* lines 465-496: the backend call and the error branch
Analyze ==
    /\ pc = "analyze"
    /\ \E r \in Responses :
          /\ response' = r
          /\ res' = Dispatch(ai_backend, r)
    /\ llmCalls' = llmCalls + 1
    /\ IF "error" \in res'.keys
       THEN /\ ui' = Stop([ui EXCEPT !.errors = Append(@, <<"analysis_failed", res'.error>>)])
            /\ pc' = "idle"
       ELSE /\ pc' = "display"
            /\ UNCHANGED ui
    /\ UNCHANGED <<AI_BACKENDS, cache, reads, disk, today, inputs, kb, load_error,
                   context, gates>>

\* variant: the visa/residency expiry is left out of the minimum
FinalDate_NoVisa(entry, days, idp, legal) == Min2(entry + days, idp)

\* line 504
FinalDate(entry, days, idp, legal) == Min3(entry + days, idp, legal)

\* variant: the signed difference is printed
DaysShown_Signed(final, now) == final - now

\* lines 529-533: the number printed in the remaining-days message
DaysShown(final, now) ==
    LET remaining == final - now
    IN  IF remaining > 0 THEN remaining ELSE Abs(remaining)

DaysKind(final, now) == IF final - now > 0 THEN "left" ELSE "overdue"

\* variant: the flag is ignored
MotoMetric_AlwaysEligible(eligible) == "eligible"

\* lines 513 and 521: the motorcycle metric and notice
MotoMetric(eligible) == IF eligible THEN "eligible" ELSE "not_eligible"

\* line 503 raises TypeError for a non-numeric limit_days and OverflowError
\* when the sum leaves the representable dates
TimedeltaRaises(entry, law) ==
    \/ ~law.num
    \/ entry + law.n < DateMinOrd
    \/ entry + law.n > DateMaxOrd

\* lines 498-540
Display ==
    /\ pc = "display"
    /\ LET law_days == GetLimitDays(res)
           final_date == FinalDate(entry_date, law_days.n, idp_exp, legal_exp)
       IN  IF TimedeltaRaises(entry_date, law_days)
           THEN /\ ui' = [ui EXCEPT !.status = "exception"]
                /\ pc' = "idle"
           ELSE /\ ui' = [ui EXCEPT
                            !.final_shown = TRUE,
                            !.final_date = final_date,
                            !.law_days = law_days.n,
                            !.moto = MotoMetric(res.motorcycle_eligible),
                            !.errors = IF MotoMetric(res.motorcycle_eligible) = "eligible"
                                       THEN @ ELSE Append(@, <<"moto_not_eligible">>),
                            !.now = today,
                            !.days_kind = DaysKind(final_date, today),
                            !.days_shown = DaysShown(final_date, today)]
                /\ pc' = "footer"
    /\ UNCHANGED <<AI_BACKENDS, cache, reads, disk, today, inputs, kb, load_error,
                   context, response, res, llmCalls, gates>>

\* lines 545-548
Footer ==
    /\ pc = "footer"
    /\ ui' = [ui EXCEPT !.footer = TRUE, !.status = "done"]
    /\ pc' = "idle"
    /\ UNCHANGED <<AI_BACKENDS, cache, reads, disk, today, inputs, kb, load_error,
                   context, response, res, llmCalls, gates>>

\* midnight passes.  The script reads the clock only in validate_dates and in
\* the remaining-days computation, so it is enough to let the day change
\* before a run reaches the form and while the backend call is pending.
Tick ==
    /\ pc \in {"backends", "analyze"}
    /\ today < MaxDay
    /\ today' = today + 1
    /\ UNCHANGED <<AI_BACKENDS, cache, reads, disk, pc, inputs, kb, load_error,
                   context, response, res, llmCalls, gates, ui>>

Next ==
    \/ StartRun
    \/ CheckBackends
    \/ Sidebar
    \/ ReloadPdf
    \/ LoadKnowledgeBase
    \/ KbGate
    \/ ApiKeyGate
    \/ Form
    \/ QueryGate
    \/ Retrieve
    \/ Analyze
    \/ Display
    \/ Footer
    \/ Tick

Spec == Init /\ [][Next]_vars

\* ---- properties ---------------------------------------------------------
AnalysisSucceeded == llmCalls >= 1 /\ "error" \notin res.keys

\* the statutory limit date, from the limit_days the analysis returned
Statutory == entry_date + res.limit_days.n

\* C1: whenever the analysis succeeded and a final date is shown, it is the
\* earliest of entry_date + limit_days, idp_exp and legal_exp (limit_days being
\* the number the analysis returned): never later than any of the three and
\* equal to one of them.
C1_FinalDateIsEarliest ==
    ui.final_shown =>
        /\ AnalysisSucceeded
        /\ "limit_days" \in res.keys /\ res.limit_days.num
        /\ ui.law_days = res.limit_days.n
        /\ ui.final_date <= Statutory
        /\ ui.final_date <= idp_exp
        /\ ui.final_date <= legal_exp
        /\ ui.final_date \in {Statutory, idp_exp, legal_exp}

\* the visa is the binding constraint
C1_Witness ==
    /\ ui.final_shown
    /\ ui.final_date = legal_exp
    /\ legal_exp < idp_exp
    /\ legal_exp < Statutory

\* C2 as stated: a result with motorcycle_eligible = false produces no final
\* date and no remaining-day count.
C2_NotEligibleNoDate ==
    (AnalysisSucceeded /\ ~res.motorcycle_eligible) =>
        (~ui.final_shown /\ ui.days_kind = "none")

\* C2 amended: a result with motorcycle_eligible = false whose run completes
\* shows the "motorcycle licence not eligible" error notice whatever the dates
\* are, and the final date and the day count are still produced, computed as
\* for an eligible result; the notice appears exactly when the flag is false.
C2_NotEligibleNotice ==
    /\ (AnalysisSucceeded /\ ~res.motorcycle_eligible /\ ui.status = "done") =>
          /\ ui.moto = "not_eligible"
          /\ <<"moto_not_eligible">> \in SeqRange(ui.errors)
          /\ ui.final_shown
          /\ ui.final_date = Min3(Statutory, idp_exp, legal_exp)
          /\ ui.days_kind # "none"
    /\ ui.final_shown =>
          (<<"moto_not_eligible">> \in SeqRange(ui.errors) <=> ~res.motorcycle_eligible)

C2_Witness ==
    /\ AnalysisSucceeded /\ ~res.motorcycle_eligible /\ ui.status = "done"
    /\ ui.final_shown /\ ui.final_date = idp_exp /\ idp_exp < legal_exp

\* C3 as stated: the number displayed is max(0, final_date - today).
C3_ClampedToZero ==
    ui.final_shown => ui.days_shown = Max2(0, ui.final_date - ui.now)

\* C3 amended: the number displayed is never negative; it is the absolute
\* difference between final_date and today, shown as days remaining when
\* final_date is after today and as days past the limit otherwise.
C3_AbsoluteDayCount ==
    ui.final_shown =>
        /\ ui.days_shown >= 0
        /\ ui.final_date > ui.now =>
              (ui.days_kind = "left" /\ ui.days_shown = ui.final_date - ui.now)
        /\ ui.final_date <= ui.now =>
              (ui.days_kind = "overdue" /\ ui.days_shown = ui.now - ui.final_date)

C3_Witness ==
    ui.final_shown /\ ui.final_date < ui.now /\ ui.days_shown > 0

\* C4: a response that supplies every field but limit_days is analysed with
\* limit_days = 365 and still produces a final date.
C4_DefaultLimitDays ==
    ( /\ llmCalls >= 1 /\ pc = "idle"
      /\ response.api_ok /\ response.body = "object" /\ response.wrap = "plain"
      /\ response.keys = required \ {"limit_days"} )
    => (ui.final_shown /\ ui.law_days = DefaultLimitDays)

\* the response stays malformed after the cleanup the selected backend applies
\* (Gemini strips code fences and cuts out the object holding
\* "motorcycle_eligible"; the other two parse the text as it is)
Unparseable ==
    IF ai_backend = "Gemini"
    THEN ~( /\ response.body = "object"
            /\ (response.wrap \in {"plain", "fenced"}
                  \/ "motorcycle_eligible" \in response.keys) )
    ELSE ~(response.body = "object" /\ response.wrap = "plain")

Malformed ==
    /\ llmCalls >= 1
    /\ response.api_ok
    /\ (Unparseable \/ ~(required \subseteq response.keys))

\* C5 as stated: after a malformed response the backend is asked again before
\* the failure is surfaced.
C5_RetriedBeforeError ==
    (Malformed /\ ui.status = "stopped") => llmCalls > 1

\* C5 amended: after a malformed response the backend is not asked again; it
\* has been invoked exactly once, the failure is surfaced at once as an error
\* message and the run stops; no final date is displayed.
C5_SingleCallThenError ==
    Malformed =>
        /\ llmCalls = 1
        /\ pc = "idle" /\ ui.status = "stopped"
        /\ ui.errors # <<>>
        /\ ui.errors[Len(ui.errors)][1] = "analysis_failed"
        /\ ~ui.final_shown
        /\ ~ui.footer

\* Gemini's cleanup was attempted and did not help
C5_Witness ==
    /\ Malformed /\ ai_backend = "Gemini" /\ response.wrap = "prose"
    /\ response.body = "object" /\ ui.status = "stopped"

\* C6: validate_dates reports every violated rule; with a non-empty list the
\* analysis is never run and no final date is shown, each message is displayed,
\* and the run is not halted but reaches the footer.
C6_AllDateErrorsCollected ==
    /\ [](date_errors # <<>> =>
            /\ llmCalls = 0
            /\ ~ui.final_shown
            /\ ui.status \in {"running", "done"}
            /\ pc \in {"query", "footer", "idle"}
            /\ (pc = "idle" => ui.footer)
            /\ \A i \in 1..Len(date_errors) :
                  <<"date", date_errors[i]>> \in SeqRange(ui.errors))
    /\ [][(pc = "form" /\ pc' = "query") =>
            /\ (ErrEntry \in SeqRange(date_errors') <=> entry_date' > today)
            /\ (ErrIdp \in SeqRange(date_errors') <=> idp_exp' < entry_date')
            /\ (ErrLegal \in SeqRange(date_errors') <=> legal_exp' < entry_date')
            /\ Len(date_errors') = Cardinality(SeqRange(date_errors'))]_vars

C6_Witness ==
    /\ Len(date_errors) = 3
    /\ pc = "idle" /\ ui.footer /\ ui.status = "done"
    /\ target_country # <<>>

\* the data folder offers no PDF with extractable text
NoUsablePdf(d) ==
    ~d.exists \/ ~(\E f \in {"CA.pdf", "NY.pdf"} : d.files[f] = "text")

SomePdfFailed(d) == \E f \in {"CA.pdf", "NY.pdf"} : d.files[f] \in {"notext", "broken"}

\* the current run has gone through the knowledge-base gate
PastKbGate ==
    \/ pc \in {"key_gate", "form", "query", "retrieve", "analyze", "display", "footer"}
    \/ (pc = "idle" /\ gates # <<>>)

\* C7: with a missing folder, no .pdf file or no PDF with extractable text the
\* knowledge base is empty or None, an error is shown and the run halts before
\* the form, the retrieval, the LLM call and the date computation; with at
\* least one PDF that yields text the run continues, failures of other files
\* being shown as a warning only.
C7_EmptyKnowledgeBaseHalts ==
    /\ cache.loaded => (NoUsablePdf(disk) <=> KbFalsy(cache.value))
    /\ PastKbGate => cache.loaded
    /\ (PastKbGate /\ NoUsablePdf(disk)) =>
          /\ pc = "idle" /\ ui.status = "stopped"
          /\ <<"kb_fail">> \in SeqRange(ui.errors)
          /\ gates = <<"backends">>
          /\ region_choice = "none" /\ ~context.found
          /\ llmCalls = 0 /\ ~ui.final_shown /\ ~ui.footer
    /\ (PastKbGate /\ ~NoUsablePdf(disk)) =>
          /\ Len(gates) >= 2 /\ gates[2] = "kb"
          /\ <<"kb_fail">> \notin SeqRange(ui.errors)
          /\ <<"load_error">> \notin SeqRange(ui.errors)
          /\ (SomePdfFailed(disk) <=> <<"load_error">> \in SeqRange(ui.warnings))

\* PDFs are present but none yields text
C7_Witness ==
    /\ PastKbGate /\ disk.exists
    /\ disk.files["CA.pdf"] = "notext" /\ disk.files["NY.pdf"] = "broken"
    /\ ui.status = "stopped"

\* C8: the data folder is read at most once per cache fill and the stored
\* result, a failed one included, is what every run uses; the cache changes
\* only when an empty cache is filled by the load or when the reload button
\* clears it.
C8_CacheReadOnce ==
    /\ [](/\ reads <= 1
          /\ (cache.loaded <=> reads = 1)
          /\ (pc = "kb_gate" \/ PastKbGate) =>
                /\ cache.loaded
                /\ kb = [isNone |-> cache.value.isNone, kb |-> cache.value.kb]
                /\ load_error = cache.value.error_msg)
    /\ [][cache' # cache =>
            \/ (pc = "load" /\ ~cache.loaded /\ cache'.loaded)
            \/ (pc = "sidebar" /\ pc' = "backends" /\ cache' = NotLoaded)]_vars

\* a later run is about to reuse a failed load result
C8_Witness ==
    /\ pc = "kb_gate" /\ reads = 1
    /\ KbFalsy(cache.value) /\ KbFalsy(kb)
    /\ disk.exists

AllGates == <<"backends", "kb", "apikey", "country", "dates", "button", "context">>

\* C9: a backend is invoked at most once per run, and only after the run has
\* passed, in this order, the package check, the knowledge-base check, the API
\* key check, the country and date checks, the button and the retrieval; a
\* final date is displayed only after an invocation that returned no error.
C9_BackendCalledOnceAfterGates ==
    /\ llmCalls <= 1
    /\ llmCalls = 1 =>
          /\ gates = AllGates
          /\ available_backends # {} /\ ai_backend \in available_backends
          /\ ~kb.isNone /\ DOMAIN kb.kb # {}
          /\ api_key # ""
          /\ target_country # <<>>
          /\ date_errors = <<>>
          /\ context.found
    /\ pc \in {"analyze", "display"} => gates = AllGates
    /\ ui.final_shown => (llmCalls = 1 /\ "error" \notin res.keys)

C9_Witness ==
    ui.final_shown /\ llmCalls = 1 /\ gates = AllGates /\ ui.footer

\* C10: whenever a final date is shown the inputs satisfy entry_date <= today,
\* idp_exp >= entry_date and legal_exp >= entry_date, and for limit_days >= 0
\* the final date is not earlier than entry_date.
C10_FinalDateNotBeforeEntry ==
    ui.final_shown =>
        /\ entry_date <= today
        /\ idp_exp >= entry_date
        /\ legal_exp >= entry_date
        /\ (res.limit_days.n >= 0 => ui.final_date >= entry_date)

C10_Witness ==
    /\ ui.final_shown /\ res.limit_days.n = 0
    /\ ui.final_date = entry_date /\ entry_date < idp_exp /\ entry_date < legal_exp

====
